---- MODULE Spec2Model ----
(***************************************************************************)
(* A model of the autom8 coding agent: the turn-taking loop of Agent.run   *)
(* (src/agent.py), the tools it dispatches (src/agent.py) and the tool     *)
(* library of src/tools.py, over a small file system.                      *)
(*                                                                         *)
(* Python values are tagged records: a str is [str |-> <<chars>>], None is *)
(* [none |-> TRUE], the text json.dumps produces is [json |-> value], a    *)
(* dict is a record with the dict's keys.  A call of a Python function is  *)
(* an outcome: [raised |-> FALSE, value |-> v, fs |-> file system after]   *)
(* or [raised |-> TRUE, exc |-> exception class, fs |-> file system].      *)
(***************************************************************************)
EXTENDS Integers, Sequences, FiniteSets, TLC

VARIABLES
    conversation,   \* Agent.run: the local list `conversation`
    tool_calls,     \* Agent.run: the local `tool_calls` of the current response
    idx,            \* Agent.run: position of the `for call in tool_calls` loop
    pc,             \* where the process is: "input", "llm", "dispatch", "exited", "crashed"
    exc,            \* the exception that left Agent.run, "none" while it runs
    fs,             \* the file system under the working directory
    invoked,        \* the tool functions the loop has called, in order
    request,        \* _execute_llm_call: what the last model call was given
    on_tool_call,   \* run_turn: the observer the outer shell passes (SpecTurn)
    observed,       \* run_turn: what the observer has been called with, in order
    probe           \* the last direct application of a tool function (SpecTools)

vars == <<conversation, tool_calls, idx, pc, exc, fs, invoked, request,
          on_tool_call, observed, probe>>

----------------------------------------------------------------------------
(* Bounds of the model *)

\* user inputs read in one session
MaxTurns == 2
\* tool requests the model makes in one session, over all its responses
MaxToolCalls == 3
\* length of a file's content in the direct applications of the tools
MaxLen == 3

----------------------------------------------------------------------------
(* Python strings and values *)

Str(s) == [str |-> s]
None == [none |-> TRUE]
CR == "\\r"
LF == "\\n"
\* the characters of file contents: a letter and the two line-ending characters
Chars == {"x", CR, LF}

\* os.linesep of the platform modelled (POSIX)
linesep == <<LF>>

\* reading in text mode (newline=None): "\r\n" and "\r" are read as "\n"
RECURSIVE universal_newlines(_)
universal_newlines(s) ==
    IF s = <<>> THEN <<>>
    ELSE IF Head(s) = CR
    THEN IF Len(s) >= 2 /\ s[2] = LF
         THEN <<LF>> \o universal_newlines(SubSeq(s, 3, Len(s)))
         ELSE <<LF>> \o universal_newlines(Tail(s))
    ELSE <<Head(s)>> \o universal_newlines(Tail(s))

\* writing in text mode (newline=None): "\n" is written as os.linesep
RECURSIVE platform_newlines(_)
platform_newlines(s) ==
    IF s = <<>> THEN <<>>
    ELSE (IF Head(s) = LF THEN linesep ELSE <<Head(s)>>) \o platform_newlines(Tail(s))

RECURSIVE lstrip(_)
lstrip(s) == IF s # <<>> /\ Head(s) = " " THEN lstrip(Tail(s)) ELSE s

RECURSIVE rstrip(_)
rstrip(s) ==
    IF s # <<>> /\ s[Len(s)] = " " THEN rstrip(SubSeq(s, 1, Len(s) - 1)) ELSE s

\* str.strip()
strip(s) == rstrip(lstrip(s))

\* whether old occurs in s at 1-based position i
OccursAt(s, old, i) ==
    /\ i >= 1
    /\ i + Len(old) - 1 <= Len(s)
    /\ SubSeq(s, i, i + Len(old) - 1) = old

\* str.find: the 0-based index of the leftmost occurrence, -1 when there is none
find(s, old) ==
    IF \E i \in 1..(Len(s) + 1) : OccursAt(s, old, i)
    THEN (CHOOSE i \in 1..(Len(s) + 1) :
              /\ OccursAt(s, old, i)
              /\ \A j \in 1..(i - 1) : ~OccursAt(s, old, j)) - 1
    ELSE -1

\* str.replace(old, new, count) for a non-empty old: left to right, count times
RECURSIVE replace(_, _, _, _)
replace(s, old, new, count) ==
    IF count = 0 \/ old = <<>> \/ find(s, old) = -1
    THEN s
    ELSE LET k == find(s, old)
         IN  SubSeq(s, 1, k) \o new
                 \o replace(SubSeq(s, k + Len(old) + 1, Len(s)), old, new, count - 1)

\* original.replace(old_str, new_str, 1)
replace_first(original, old_str, new_str) == replace(original, old_str, new_str, 1)

\* json.dumps(resp): the text of a value, which is not the value
json_dumps(resp) == [json |-> resp]

\* call.function.arguments or "{}", then json.loads: the text is None or empty,
\* the text of a JSON object, or text that is no JSON
json_loads(arguments) ==
    CASE arguments.kind = "none"   -> [raised |-> FALSE, value |-> [k \in {} |-> None]]
      [] arguments.kind = "object" -> [raised |-> FALSE, value |-> arguments.obj]
      [] OTHER                     -> [raised |-> TRUE, exc |-> "JSONDecodeError"]

\* dict.get(key, default)
get(args, key, default) == IF key \in DOMAIN args THEN args[key] ELSE default

----------------------------------------------------------------------------
(* The file system: the working directory and the files in it *)

Cwd == "/cwd"
FileNames == <<"a.txt">>
Join(dir, name) == dir \o "/" \o name
AbsPaths == {Cwd} \cup {Join(Cwd, FileNames[i]) : i \in DOMAIN FileNames}

Absent == [kind |-> "absent"]
Dir == [kind |-> "dir"]
File(content) == [kind |-> "file", content |-> content]

\* Path.is_absolute()
is_absolute(path_str) == path_str \in AbsPaths

\* _resolve_abs_path: a relative path is taken from the working directory
resolve_abs_path(path_str) ==
    IF is_absolute(path_str) THEN path_str
    ELSE IF path_str = "." THEN Cwd
    ELSE Join(Cwd, path_str)

Returns(v, f) == [raised |-> FALSE, value |-> v, fs |-> f]
Raises(e, f) == [raised |-> TRUE, exc |-> e, fs |-> f]

\* open(path, "r").read() and Path.read_text(): the file's text, in text mode
read_text(f, full_path) ==
    CASE f[full_path].kind = "absent" -> Raises("FileNotFoundError", f)
      [] f[full_path].kind = "dir"    -> Raises("IsADirectoryError", f)
      [] OTHER -> Returns(universal_newlines(f[full_path].content), f)

\* Path.write_text(): creates or truncates the file, then writes
write_text(f, full_path, text) ==
    IF f[full_path].kind = "dir"
    THEN Raises("IsADirectoryError", f)
    ELSE Returns(None, [f EXCEPT ![full_path] = File(platform_newlines(text))])

\* the entries Path.iterdir() yields for the working directory, as the tool tags them
RECURSIVE listing(_, _)
listing(f, i) ==
    IF i > Len(FileNames) THEN <<>>
    ELSE LET p == Join(Cwd, FileNames[i])
             rest == listing(f, i + 1)
         IN  IF f[p].kind = "absent" THEN rest
             ELSE <<[filename |-> FileNames[i],
                     type |-> IF f[p].kind = "file" THEN "file" ELSE "dir"]>> \o rest

iterdir(f, full_path) ==
    CASE f[full_path].kind = "absent" -> Raises("FileNotFoundError", f)
      [] f[full_path].kind = "file"   -> Raises("NotADirectoryError", f)
      [] OTHER                        -> Returns(listing(f, 1), f)

----------------------------------------------------------------------------
(* The tools of src/agent.py, which Agent.run dispatches *)

read_file_tool(f, filename) ==
    LET full_path == resolve_abs_path(filename)
        r == read_text(f, full_path)
    IN  IF r.raised THEN r
        ELSE Returns([file_path |-> full_path, content |-> Str(r.value)], f)

list_files_tool(f, path) ==
    LET full_path == resolve_abs_path(path)
        r == iterdir(f, full_path)
    IN  IF r.raised THEN r
        ELSE Returns([path |-> full_path, files |-> r.value], f)

edit_file_tool(f, path, old_str, new_str) ==
    LET full_path == resolve_abs_path(path)
    IN  IF old_str = <<>>
        THEN LET w == write_text(f, full_path, new_str)
             IN  IF w.raised THEN w
                 ELSE Returns([path |-> full_path, action |-> "created_file"], w.fs)
        ELSE LET r == read_text(f, full_path)
             IN  IF r.raised THEN r
                 ELSE IF find(r.value, old_str) = -1
                 THEN Returns([path |-> full_path, action |-> "old_str not found"], f)
                 ELSE LET w == write_text(f, full_path,
                                          replace_first(r.value, old_str, new_str))
                      IN  IF w.raised THEN w
                          ELSE Returns([path |-> full_path,
                                        action |-> "Edited: old_str replaced by new_str successfully"],
                                       w.fs)

\* a faulty TOOL_REGISTRY: the git tools are registered, and the loop has no branch for them
registry_with_git ==
    {"read_file", "list_files", "edit_file", "git_status", "git_commit"}

TOOL_REGISTRY == {"read_file", "list_files", "edit_file"}

\* inspect.signature(tool).parameters: the parameter names of a registered tool
parameters(name) ==
    CASE name = "read_file"  -> <<"filename">>
      [] name = "list_files" -> <<"path">>
      [] name = "edit_file"  -> <<"path", "old_str", "new_str">>
      [] OTHER               -> <<>>

\* Agent._build_tools: one function description per entry of the registry
build_tools ==
    { [name |-> n, properties |-> parameters(n), required |-> parameters(n)] :
        n \in TOOL_REGISTRY }

----------------------------------------------------------------------------
(* The tool library of src/tools.py *)

\* try: ... except Exception as e: return {"error": str(e)}
caught(out) == IF out.raised THEN Returns([error |-> out.exc], out.fs) ELSE out

\* Path.exists()
exists(f, full_path) == f[full_path].kind # "absent"

tools_read_file_tool(f, filename) ==
    LET full_path == resolve_abs_path(filename)
        r == read_text(f, full_path)
    IN  caught(IF r.raised THEN r
               ELSE Returns([file_path |-> full_path, content |-> Str(r.value)], f))

tools_list_files_tool(f, path) ==
    LET full_path == resolve_abs_path(path)
        r == iterdir(f, full_path)
    IN  caught(IF r.raised THEN r
               ELSE Returns([path |-> full_path, files |-> r.value], f))

tools_edit_file_tool(f, path, old_str, new_str) ==
    LET full_path == resolve_abs_path(path)
    IN  caught(
        IF ~exists(f, full_path) /\ old_str # <<>>
        THEN Returns([path |-> full_path, action |-> "path does not exist"], f)
        ELSE IF old_str = <<>>
        THEN LET w == write_text(f, full_path, new_str)
             IN  IF w.raised THEN w
                 ELSE Returns([path |-> full_path, action |-> "Created file " \o path],
                              w.fs)
        ELSE LET r == read_text(f, full_path)
             IN  IF r.raised THEN r
                 ELSE IF find(r.value, old_str) = -1
                 THEN Returns([path |-> full_path, action |-> "old_str not found"], f)
                 ELSE LET w == write_text(f, full_path,
                                          replace_first(r.value, old_str, new_str))
                      IN  IF w.raised THEN w
                          ELSE Returns([path |-> full_path,
                                        action |-> "Edited: old_str replaced by new_str successfully"],
                                       w.fs))

\* Path.mkdir(parents=True, exist_ok=True)
mkdir(f, full_path) ==
    CASE f[full_path].kind = "file" -> Raises("FileExistsError", f)
      [] f[full_path].kind = "dir"  -> Returns(None, f)
      [] OTHER                      -> Returns(None, [f EXCEPT ![full_path] = Dir])

create_directory_tool(f, path) ==
    LET full_path == resolve_abs_path(path)
        m == mkdir(f, full_path)
    IN  caught(IF m.raised THEN m
               ELSE Returns([path |-> full_path,
                             action |-> "Directory created successfully"], m.fs))

\* subprocess.run(cmd, check=True, ...): a non-zero exit raises
subprocess_run(f, returncode, stdout) ==
    IF returncode # 0 THEN Raises("CalledProcessError", f) ELSE Returns(stdout, f)

git_status_tool(f, returncode) ==
    subprocess_run(f, returncode, Str(<<"git status --porcelain">>))

git_add_tool(f, returncode) ==
    LET r == subprocess_run(f, returncode, None)
    IN  IF r.raised THEN r ELSE Returns(None, f)

git_diff_tool(f, returncode) == subprocess_run(f, returncode, Str(<<"git diff">>))

git_commit_tool(f, returncode) ==
    LET r == subprocess_run(f, returncode, None)
    IN  IF r.raised THEN r ELSE Returns(None, f)

TOOLS_TOOL_REGISTRY ==
    {"read_file", "list_files", "edit_file", "create_directory",
     "git_status", "git_add", "git_diff", "git_commit"}

\* a faulty params_of: a missing old_str is not taken for the empty string
params_of_no_old_default(name, args) ==
    CASE name = "read_file"  -> <<get(args, "filename", ".")>>
      [] name = "list_files" -> <<get(args, "path", ".")>>
      [] name = "edit_file"  -> <<get(args, "path", "."),
                                  get(args, "old_str", <<"None">>),
                                  get(args, "new_str", <<>>)>>
      [] OTHER               -> <<>>

\* the positional arguments the if/elif chain of Agent.run passes to the tool
params_of(name, args) ==
    CASE name = "read_file"  -> <<get(args, "filename", ".")>>
      [] name = "list_files" -> <<get(args, "path", ".")>>
      [] name = "edit_file"  -> <<get(args, "path", "."),
                                  get(args, "old_str", <<>>),
                                  get(args, "new_str", <<>>)>>
      [] OTHER               -> <<>>

\* a faulty calls_for: a successful edit is committed without being asked
calls_for_autocommit(name, params) ==
    IF name = "edit_file"
    THEN <<[tool |-> name, params |-> params],
           [tool |-> "git_commit", params |-> <<"auto">>]>>
    ELSE <<[tool |-> name, params |-> params]>>

\* the tool functions one branch of the if/elif chain calls: tool(...), once
calls_for(name, params) == <<[tool |-> name, params |-> params]>>

\* resp after the if/elif chain: the branch's tool result, or the "" resp starts as
run_tool(f, name, args) ==
    LET p == params_of(name, args)
    IN  CASE name = "read_file"  -> read_file_tool(f, p[1])
          [] name = "list_files" -> list_files_tool(f, p[1])
          [] name = "edit_file"  -> edit_file_tool(f, p[1], p[2], p[3])
          [] OTHER               -> Returns(Str(<<>>), f)

\* one iteration of `for call in tool_calls` up to the append: decode the
\* arguments, look the tool up, call it
dispatch(f, function) ==
    LET loaded == json_loads(function.arguments)
    IN  IF loaded.raised THEN Raises(loaded.exc, f)
        ELSE IF function.name \notin TOOL_REGISTRY THEN Raises("KeyError", f)
        ELSE run_tool(f, function.name, loaded.value)

\* the tool functions that iteration calls: none when it raises before the chain
dispatch_calls(function) ==
    LET loaded == json_loads(function.arguments)
    IN  IF loaded.raised \/ function.name \notin TOOL_REGISTRY
          \/ function.name \notin {"read_file", "list_files", "edit_file"}
        THEN <<>>
        ELSE calls_for(function.name, params_of(function.name, loaded.value))

----------------------------------------------------------------------------
(* The conversation *)

SYSTEM_PROMPT == Str(<<"You are a coding assistant">>)

system_message == [role |-> "system", content |-> SYSTEM_PROMPT]

user_message(user_input) == [role |-> "user", content |-> Str(strip(user_input))]

final_message(message) == [role |-> "assistant", content |-> message.content]

\* a faulty request_message: the requests are left out of the Assistant entry
request_message_without_calls(message, calls) ==
    [role |-> "assistant", content |-> message.content]

request_message(message, calls) ==
    [role |-> "assistant", content |-> message.content, tool_calls |-> calls]

\* a faulty tool_message: the entry is keyed by the tool's name, not the call's id
tool_message_by_name(call, resp) ==
    [role |-> "tool", tool_call_id |-> call.function.name, content |-> json_dumps(resp)]

\* conversation.append({"role": "tool", "tool_call_id": call.id, ...})
tool_message(call, resp) ==
    [role |-> "tool", tool_call_id |-> call.id, content |-> json_dumps(resp)]

\* a faulty add_user_input: each turn starts the conversation afresh
restart_with_user_input(conv, user_input) ==
    <<system_message, user_message(user_input)>>

\* conversation.append({"role": "user", ...})
add_user_input(conv, user_input) == Append(conv, user_message(user_input))

\* a faulty call_at: the batch is walked from its end
call_at_reversed(calls, i) == calls[Len(calls) + 1 - i]

\* for call in tool_calls: the i-th iteration takes the i-th request
call_at(calls, i) == calls[i]

\* a faulty is_final: a single tool call is taken for an answer
is_final_below_two(calls) == Len(calls) < 2

\* if not tool_calls
is_final(calls) == calls = <<>>

\* a faulty after_dispatch: the model is called again after each tool
after_dispatch_one_at_a_time(calls, i) == "llm"

\* a faulty after_dispatch: the turn is over once one batch has been dispatched
after_dispatch_ends_turn(calls, i) == IF i < Len(calls) THEN "dispatch" ELSE "input"

\* where the loop goes after the i-th iteration: on, or back to the model call
after_dispatch(calls, i) == IF i < Len(calls) THEN "dispatch" ELSE "llm"

IsRequest(entry) == entry.role = "assistant" /\ "tool_calls" \in DOMAIN entry
IsFinal(entry) == entry.role = "assistant" /\ "tool_calls" \notin DOMAIN entry
IsToolResult(entry) == entry.role = "tool"

\* the user entries of a conversation: the turns begun
RECURSIVE Turns(_)
Turns(conv) ==
    IF conv = <<>> THEN 0
    ELSE Turns(Tail(conv)) + (IF Head(conv).role = "user" THEN 1 ELSE 0)

\* the tool requests of a conversation, in order
RECURSIVE Requests(_)
Requests(conv) ==
    IF conv = <<>> THEN <<>>
    ELSE (IF IsRequest(Head(conv)) THEN Head(conv).tool_calls ELSE <<>>)
             \o Requests(Tail(conv))

----------------------------------------------------------------------------
(* What comes from outside: the user's lines and the model's responses *)

UserInputs == {<<" ", "h", "i">>, <<"h", "i", " ">>}

Obj(o) == [kind |-> "object", obj |-> o]

\* the function part of the tool calls the model makes
Functions ==
    { [name |-> "read_file", arguments |-> Obj([filename |-> "a.txt"])],
      [name |-> "read_file", arguments |-> [kind |-> "none"]],
      [name |-> "list_files", arguments |-> Obj([k \in {} |-> None])],
      [name |-> "edit_file",
       arguments |-> Obj([path |-> "a.txt", new_str |-> <<"x", "x">>])],
      [name |-> "edit_file",
       arguments |-> Obj([path |-> "a.txt", old_str |-> <<"x">>, new_str |-> <<"y">>])],
      [name |-> "edit_file", arguments |-> Obj([path |-> "a.txt", old_str |-> <<>>])],
      [name |-> "git_commit", arguments |-> Obj([message |-> "m"])],
      [name |-> "edit_file", arguments |-> [kind |-> "malformed"]] }

\* the service numbers the calls it makes: every call of a session has its own id
Batches(conv) ==
    LET base == Len(Requests(conv))
    IN  UNION { { [j \in 1..k |-> [id |-> "call_" \o ToString(base + j),
                                    function |-> fns[j]]] :
                    fns \in [1..k -> Functions] } :
                k \in 1..(MaxToolCalls - base) }

\* response.choices[0].message: a text and no tool calls (None or an empty list),
\* or tool calls and no text
Messages(conv) ==
    { [content |-> Str(<<"done">>), tool_calls |-> tc] : tc \in {None, [list |-> <<>>]} }
      \cup { [content |-> None, tool_calls |-> [list |-> b]] : b \in Batches(conv) }

\* assistant_message.tool_calls or []
or_empty(tc) == IF "none" \in DOMAIN tc THEN <<>> ELSE tc.list

----------------------------------------------------------------------------
(* Agent.run *)

NoProbe == [tool |-> "none"]

\* no model call has been made yet
NoRequest == [messages |-> <<>>, tools |-> {}]

\* a faulty execute_llm_call: the model is given the turn under way only
execute_llm_call_current_turn(conv) ==
    LET start == CHOOSE p \in 1..Len(conv) :
                     /\ conv[p].role = "user"
                     /\ \A q \in (p + 1)..Len(conv) : conv[q].role # "user"
    IN  [messages |-> <<conv[1]>> \o SubSeq(conv, start, Len(conv)),
         tools |-> build_tools]

\* Agent._execute_llm_call: messages=conversation, tools=self.tools
execute_llm_call(conv) == [messages |-> conv, tools |-> build_tools]

InitFs ==
    { [p \in AbsPaths |-> IF p = Cwd THEN Dir ELSE n] : n \in {Absent, File(<<"x", "x">>)} }

Init ==
    /\ conversation = <<system_message>>
    /\ tool_calls = <<>>
    /\ idx = 1
    /\ pc = "input"
    /\ exc = "none"
    /\ fs \in InitFs
    /\ invoked = <<>>
    /\ request = NoRequest
    /\ on_tool_call = "none"
    /\ observed = <<>>
    /\ probe = NoProbe

\* input() returns a line: the User entry is appended and the inner loop entered
UserInput ==
    /\ pc = "input"
    /\ Turns(conversation) < MaxTurns
    /\ \E user_input \in UserInputs :
           conversation' = add_user_input(conversation, user_input)
    /\ pc' = "llm"
    /\ UNCHANGED <<tool_calls, idx, exc, fs, invoked, request, on_tool_call,
                   observed, probe>>

\* input() raises KeyboardInterrupt or EOFError: break, and run returns
UserEOF ==
    /\ pc = "input"
    /\ pc' = "exited"
    /\ UNCHANGED <<conversation, tool_calls, idx, exc, fs, invoked, request,
                   on_tool_call, observed, probe>>

\* the model responds: a final answer ends the inner loop, tool calls start the for loop
LlmResponse ==
    /\ pc = "llm"
    /\ request' = execute_llm_call(conversation)
    /\ \E message \in Messages(conversation) :
         LET calls == or_empty(message.tool_calls)
         IN  /\ tool_calls' = calls
             /\ IF is_final(calls)
                THEN /\ conversation' = Append(conversation, final_message(message))
                     /\ pc' = "input"
                ELSE /\ conversation' = Append(conversation, request_message(message, calls))
                     /\ pc' = "dispatch"
    /\ idx' = 1
    /\ UNCHANGED <<exc, fs, invoked, on_tool_call, observed, probe>>

\* the remote call raises: nothing in run or main catches it
LlmCallFails ==
    /\ pc = "llm"
    /\ request' = execute_llm_call(conversation)
    /\ pc' = "crashed"
    /\ exc' = "APIError"
    /\ UNCHANGED <<conversation, tool_calls, idx, fs, invoked, on_tool_call,
                   observed, probe>>

\* one iteration of `for call in tool_calls`
DispatchCall ==
    /\ pc = "dispatch"
    /\ idx <= Len(tool_calls)
    /\ LET call == call_at(tool_calls, idx)
           out == dispatch(fs, call.function)
       IN  /\ invoked' = invoked \o dispatch_calls(call.function)
           /\ fs' = out.fs
           /\ IF out.raised
              THEN /\ pc' = "crashed"
                   /\ exc' = out.exc
                   /\ UNCHANGED <<conversation, idx>>
              ELSE /\ conversation' =
                          Append(conversation, tool_message(call, out.value))
                   /\ pc' = after_dispatch(tool_calls, idx)
                   /\ idx' = idx + 1
                   /\ UNCHANGED exc
    /\ UNCHANGED <<tool_calls, request, on_tool_call, observed, probe>>

Next == UserInput \/ UserEOF \/ LlmResponse \/ LlmCallFails \/ DispatchCall

Spec == Init /\ [][Next]_vars

----------------------------------------------------------------------------
(* Agent.run_turn(user_input, on_tool_call), which main of src/autom8.py calls   *)
(* for every line it reads.  The method is not in src/agent.py: the turn driver  *)
(* is modelled after sections 4.1, 4.2, 4.5 and 7 of the specification, over the *)
(* tool library of src/tools.py.                                                 *)

\* the observers a caller may pass: none (on_tool_call=None) or one of two
Hooks == {"none", "log", "count"}

\* the file tools of the registry, which the requests of this part name
FileTools == {"read_file", "list_files", "edit_file", "create_directory"}

TurnFunctions ==
    { [name |-> "read_file", arguments |-> Obj([filename |-> "a.txt"])],
      [name |-> "list_files", arguments |-> Obj([k \in {} |-> None])],
      [name |-> "edit_file",
       arguments |-> Obj([path |-> "a.txt", new_str |-> <<"y">>])],
      [name |-> "no_such_tool", arguments |-> Obj([k \in {} |-> None])] }

TurnBatches(conv) ==
    LET base == Len(Requests(conv))
    IN  UNION { { [j \in 1..k |-> [id |-> "call_" \o ToString(base + j),
                                    function |-> fns[j]]] :
                    fns \in [1..k -> TurnFunctions] } :
                k \in 1..(MaxToolCalls - base) }

TurnMessages(conv) ==
    { [content |-> Str(<<"done">>), tool_calls |-> None] }
      \cup { [content |-> None, tool_calls |-> [list |-> b]] : b \in TurnBatches(conv) }

\* a faulty notify: the observer is called before and after the tool
notify_twice(hook, log, name, args) ==
    IF hook = "none" THEN log
    ELSE log \o <<[hook |-> hook, name |-> name, args |-> args],
                  [hook |-> hook, name |-> name, args |-> args]>>

\* the observer, if one was passed, is called with the tool's name and arguments;
\* what it returns is not used
notify(hook, log, name, args) ==
    IF hook = "none" THEN log
    ELSE Append(log, [hook |-> hook, name |-> name, args |-> args])

\* dispatch through the registry: an unknown name and arguments that do not decode
\* are error results, a missing parameter takes its default, a tool fails closed
registry_dispatch(f, function) ==
    LET loaded == json_loads(function.arguments)
        args == loaded.value
    IN  IF loaded.raised THEN Returns([error |-> loaded.exc], f)
        ELSE CASE function.name = "read_file" ->
                      tools_read_file_tool(f, get(args, "filename", "."))
               [] function.name = "list_files" ->
                      tools_list_files_tool(f, get(args, "path", "."))
               [] function.name = "edit_file" ->
                      tools_edit_file_tool(f, get(args, "path", "."),
                                           get(args, "old_str", <<>>),
                                           get(args, "new_str", <<>>))
               [] function.name = "create_directory" ->
                      create_directory_tool(f, get(args, "path", "."))
               [] OTHER -> Returns([error |-> "UnknownToolError"], f)

InitTurn ==
    /\ conversation = <<system_message>>
    /\ tool_calls = <<>>
    /\ idx = 1
    /\ pc = "input"
    /\ exc = "none"
    /\ fs \in InitFs
    /\ invoked = <<>>
    /\ request = NoRequest
    /\ on_tool_call \in Hooks
    /\ observed = <<>>
    /\ probe = NoProbe

\* the model responds to run_turn's call
TurnLlmResponse ==
    /\ pc = "llm"
    /\ request' = execute_llm_call(conversation)
    /\ \E message \in TurnMessages(conversation) :
         LET calls == or_empty(message.tool_calls)
         IN  /\ tool_calls' = calls
             /\ IF is_final(calls)
                THEN /\ conversation' = Append(conversation, final_message(message))
                     /\ pc' = "input"
                ELSE /\ conversation' = Append(conversation, request_message(message, calls))
                     /\ pc' = "dispatch"
    /\ idx' = 1
    /\ UNCHANGED <<exc, fs, invoked, on_tool_call, observed, probe>>

\* one request of the batch: the observer is told, the registry dispatches, the
\* result is appended
TurnDispatch ==
    /\ pc = "dispatch"
    /\ idx <= Len(tool_calls)
    /\ LET call == call_at(tool_calls, idx)
           loaded == json_loads(call.function.arguments)
           out == registry_dispatch(fs, call.function)
       IN  /\ observed' = IF loaded.raised THEN observed
                           ELSE notify(on_tool_call, observed,
                                       call.function.name, loaded.value)
           /\ fs' = out.fs
           /\ conversation' = Append(conversation, tool_message(call, out.value))
           /\ pc' = after_dispatch(tool_calls, idx)
           /\ idx' = idx + 1
    /\ UNCHANGED <<tool_calls, exc, invoked, request, on_tool_call, probe>>

NextTurn == UserInput \/ UserEOF \/ TurnLlmResponse \/ LlmCallFails \/ TurnDispatch

SpecTurn == InitTurn /\ [][NextTurn]_vars

----------------------------------------------------------------------------
(* The tool functions applied directly, one call at a time, to any file system *)

\* length of old_str and new_str in the direct applications
MaxArg == 2

Strings(n) == UNION { [1..k -> Chars] : k \in 0..n }

ProbePaths == {"a.txt", "."}

\* the replacement texts tried: empty, shorter and longer than what they replace
NewStrs == {<<>>, <<"y">>, <<"x", "y">>, <<CR, "y">>}

ProbeFs ==
    { [p \in AbsPaths |-> IF p = Cwd THEN Dir ELSE n] :
        n \in {Absent, Dir} \cup { File(c) : c \in Strings(MaxLen) } }

\* a tool function is applied: what it was given, what it found and what it did
Probed(impl, tool, params, out) ==
    /\ probe' = [tool |-> tool, impl |-> impl, params |-> params, pre |-> fs, out |-> out]
    /\ fs' = out.fs
    /\ UNCHANGED <<conversation, tool_calls, idx, exc, invoked, request,
                   on_tool_call, observed>>

\* one writing tool is applied to the drawn file system, then the reading ones
Writing == pc = "tools" /\ pc' = "written"
Reading == pc \in {"tools", "written"} /\ pc' = pc

InitTools ==
    /\ conversation = <<system_message>>
    /\ tool_calls = <<>>
    /\ idx = 1
    /\ pc = "tools"
    /\ exc = "none"
    /\ fs \in ProbeFs
    /\ invoked = <<>>
    /\ request = NoRequest
    /\ on_tool_call = "none"
    /\ observed = <<>>
    /\ probe = NoProbe

ProbeReadFile ==
    /\ Reading
    /\ \E path \in ProbePaths :
        Probed("tools", "read_file", <<path>>, tools_read_file_tool(fs, path))

ProbeAgentReadFile ==
    /\ Reading
    /\ \E path \in ProbePaths :
        Probed("agent", "read_file", <<path>>, read_file_tool(fs, path))

ProbeListFiles ==
    /\ Reading
    /\ \E path \in ProbePaths :
        Probed("tools", "list_files", <<path>>, tools_list_files_tool(fs, path))

ProbeAgentListFiles ==
    /\ Reading
    /\ \E path \in ProbePaths :
        Probed("agent", "list_files", <<path>>, list_files_tool(fs, path))

ProbeEditFile ==
    /\ Writing
    /\ \E path \in ProbePaths, old_str \in Strings(MaxArg), new_str \in NewStrs :
           Probed("tools", "edit_file", <<path, old_str, new_str>>,
                  tools_edit_file_tool(fs, path, old_str, new_str))

ProbeAgentEditFile ==
    /\ Writing
    /\ \E path \in ProbePaths, old_str \in Strings(MaxArg), new_str \in NewStrs :
           Probed("agent", "edit_file", <<path, old_str, new_str>>,
                  edit_file_tool(fs, path, old_str, new_str))

ProbeCreateDirectory ==
    /\ Writing
    /\ \E path \in ProbePaths :
        Probed("tools", "create_directory", <<path>>, create_directory_tool(fs, path))

ProbeGit ==
    /\ Writing
    /\ \E returncode \in {0, 1} :
        \/ Probed("tools", "git_status", <<returncode>>, git_status_tool(fs, returncode))
        \/ Probed("tools", "git_add", <<returncode>>, git_add_tool(fs, returncode))
        \/ Probed("tools", "git_diff", <<returncode>>, git_diff_tool(fs, returncode))
        \/ Probed("tools", "git_commit", <<returncode>>, git_commit_tool(fs, returncode))

NextTools ==
    \/ ProbeReadFile \/ ProbeAgentReadFile
    \/ ProbeListFiles \/ ProbeAgentListFiles
    \/ ProbeEditFile \/ ProbeAgentEditFile
    \/ ProbeCreateDirectory
    \/ ProbeGit

SpecTools == InitTools /\ [][NextTools]_vars

----------------------------------------------------------------------------
(* Properties of the agent loop *)

Last(s) == s[Len(s)]

\* the step appends exactly one entry to the conversation
AppendsOne ==
    /\ Len(conversation') = Len(conversation) + 1
    /\ SubSeq(conversation', 1, Len(conversation)) = conversation

\* the step appends one tool-result entry
AppendsToolResult == AppendsOne /\ IsToolResult(Last(conversation'))

\* the step is a model call: a response is appended, or the call fails
ModelCalled ==
    \/ AppendsOne /\ Last(conversation').role = "assistant"
    \/ exc = "none" /\ exc' = "APIError"

RequestPositions(conv) == { p \in 1..Len(conv) : IsRequest(conv[p]) }

\* every request of every batch is followed, in its batch's place, by a tool result
AllAnswered(conv) ==
    \A p \in RequestPositions(conv) :
        LET k == Len(conv[p].tool_calls)
        IN  /\ p + k <= Len(conv)
            /\ \A i \in 1..k : IsToolResult(conv[p + i])

\* the tool-result entries carrying a call id
Answers(conv, id) ==
    { q \in 1..Len(conv) : IsToolResult(conv[q]) /\ conv[q].tool_call_id = id }

\* C1: the tool-result entries of a batch follow its assistant entry in the order
\* of the requests: the i-th entry after it, once appended, answers the i-th request
C1_ResultsInRequestOrder ==
    \A p \in RequestPositions(conversation) :
        \A i \in 1..Len(conversation[p].tool_calls) :
            p + i <= Len(conversation) =>
                /\ IsToolResult(conversation[p + i])
                /\ conversation[p + i].tool_call_id = conversation[p].tool_calls[i].id

\* a batch of two requests for different tools, both answered, in the second turn
C1_Witness ==
    /\ Turns(conversation) = 2
    /\ \E p \in RequestPositions(conversation) :
           /\ conversation[p - 1].role = "user"
           /\ p > 2
           /\ Len(conversation[p].tool_calls) = 2
           /\ conversation[p].tool_calls[1].function.name
                  # conversation[p].tool_calls[2].function.name
           /\ p + 2 <= Len(conversation)
           /\ IsToolResult(conversation[p + 2])

\* C2: every model call (a response appended, or a failing call) is made with all
\* requests of all earlier batches dispatched and answered
C2_BatchBeforeNextCall ==
    [][ModelCalled => AllAnswered(conversation) /\ idx = Len(tool_calls) + 1]_vars

\* a batch of two requests, its two results, and then the next model response
C2_Witness ==
    \E p \in RequestPositions(conversation) :
        /\ Len(conversation[p].tool_calls) = 2
        /\ p + 3 <= Len(conversation)
        /\ IsToolResult(conversation[p + 1])
        /\ IsToolResult(conversation[p + 2])
        /\ conversation[p + 3].role = "assistant"

\* C3: a request for a name that is not in the registry is answered with an error
\* tool result for its call id, and the loop goes on
C3_UnknownToolAnswered ==
    [][(/\ pc = "dispatch"
        /\ idx <= Len(tool_calls)
        /\ ~json_loads(tool_calls[idx].function.arguments).raised
        /\ tool_calls[idx].function.name \notin TOOL_REGISTRY)
       => /\ pc' \in {"dispatch", "llm"}
          /\ AppendsToolResult
          /\ Last(conversation').tool_call_id = tool_calls[idx].id
          /\ "error" \in DOMAIN Last(conversation').content.json]_vars

\* C4: a request for a registered tool is always answered with a tool result for
\* its call id, an {"error": message} one when the file operation fails, and the
\* loop goes on
C4_ToolFailureAnswered ==
    [][(/\ pc = "dispatch"
        /\ idx <= Len(tool_calls)
        /\ ~json_loads(tool_calls[idx].function.arguments).raised
        /\ tool_calls[idx].function.name \in TOOL_REGISTRY)
       => /\ pc' \in {"dispatch", "llm"}
          /\ AppendsToolResult
          /\ Last(conversation').tool_call_id = tool_calls[idx].id]_vars

\* C5: a failing model call ends the turn only: the loop is back at the user's
\* input with the conversation as it was
C5_GatewayFailureEndsOnlyTurn ==
    [][(exc = "none" /\ exc' = "APIError")
       => pc' = "input" /\ conversation' = conversation]_vars

\* C6: every step leaves the conversation as a prefix of the new one, and the
\* System entry stays first
C6_AppendOnly ==
    /\ [](conversation[1] = system_message)
    /\ [][/\ Len(conversation') >= Len(conversation)
          /\ SubSeq(conversation', 1, Len(conversation)) = conversation]_vars

\* the second turn, begun after a first turn that ran tools
C6_Witness ==
    /\ Turns(conversation) = 2
    /\ \E p \in RequestPositions(conversation) :
           p + 1 < Len(conversation) /\ IsToolResult(conversation[p + 1])
    /\ IsFinal(Last(conversation))

\* C7: a response without tool calls appends one Assistant entry without tool
\* calls, runs no tool and ends the turn; a response with tool calls appends the
\* request entry and goes on to dispatch; a turn ends only by the former
C7_Classification ==
    [][/\ (pc = "llm" /\ pc' \in {"input", "dispatch"}) =>
            /\ AppendsOne
            /\ IF tool_calls' = <<>>
               THEN /\ IsFinal(Last(conversation'))
                    /\ pc' = "input"
                    /\ invoked' = invoked
                    /\ fs' = fs
               ELSE /\ IsRequest(Last(conversation'))
                    /\ Last(conversation').tool_calls = tool_calls'
                    /\ pc' = "dispatch"
       /\ (pc # "input" /\ pc' = "input") =>
            /\ pc = "llm"
            /\ tool_calls' = <<>>
            /\ AppendsOne
            /\ IsFinal(Last(conversation'))]_vars

\* a turn answered after a round of tools
C7_Witness ==
    /\ pc = "input"
    /\ IsFinal(Last(conversation))
    /\ IsToolResult(conversation[Len(conversation) - 1])

\* C8: a tool-result entry carries the id of the request being dispatched and the
\* result of dispatching that request's name and arguments; a call id is never
\* answered twice, and is answered once whenever the model is called or the turn
\* is over; no tool result answers an id no request has
C8_ResultAnswersItsRequest ==
    /\ [][AppendsToolResult =>
            /\ pc = "dispatch"
            /\ idx <= Len(tool_calls)
            /\ LET call == tool_calls[idx]
                   out == dispatch(fs, call.function)
               IN  /\ ~out.raised
                   /\ Last(conversation').tool_call_id = call.id
                   /\ Last(conversation').content = json_dumps(out.value)
                   /\ \E p \in RequestPositions(conversation) :
                          /\ p + idx = Len(conversation')
                          /\ conversation[p].tool_calls = tool_calls]_vars
    /\ [](LET reqs == Requests(conversation)
          IN  /\ \A j \in 1..Len(reqs) :
                     /\ Cardinality(Answers(conversation, reqs[j].id)) <= 1
                     /\ pc \in {"llm", "input", "exited"} =>
                            Cardinality(Answers(conversation, reqs[j].id)) = 1
              /\ \A q \in 1..Len(conversation) :
                     IsToolResult(conversation[q]) =>
                         \E j \in 1..Len(reqs) :
                             reqs[j].id = conversation[q].tool_call_id)

\* a batch of two different requests with two different results
C8_Witness ==
    \E p \in RequestPositions(conversation) :
        /\ Len(conversation[p].tool_calls) = 2
        /\ p + 2 <= Len(conversation)
        /\ IsToolResult(conversation[p + 2])
        /\ conversation[p].tool_calls[1].function # conversation[p].tool_calls[2].function
        /\ conversation[p + 1].content # conversation[p + 2].content

\* the calls of a tool function among those made
Invocations(name) == { i \in 1..Len(invoked) : invoked[i].tool = name }

\* the requests naming a tool among those the model has made
Named(name) ==
    LET reqs == Requests(conversation)
    IN  { j \in 1..Len(reqs) : reqs[j].function.name = name }

\* C9: a tool function is called only by the dispatch of the request at hand, one
\* call per request, and it is the tool the request names; so no tool, git_commit
\* and git_add included, has been called more often than the model has named it
C9_OnlyNamedToolsInvoked ==
    /\ [][invoked' # invoked =>
            /\ pc = "dispatch"
            /\ idx <= Len(tool_calls)
            /\ Len(invoked') = Len(invoked) + 1
            /\ SubSeq(invoked', 1, Len(invoked)) = invoked
            /\ Last(invoked').tool = tool_calls[idx].function.name
            /\ tool_calls = conversation[Len(conversation) + 1 - idx].tool_calls]_vars
    /\ [](\A name \in TOOLS_TOOL_REGISTRY :
              Cardinality(Invocations(name)) <= Cardinality(Named(name)))

\* a turn that edited the file twice and was answered; nothing was committed
C9_Witness ==
    /\ pc = "input"
    /\ IsFinal(Last(conversation))
    /\ Cardinality(Invocations("edit_file")) >= 2
    /\ fs[Join(Cwd, "a.txt")] = File(<<"y", "x">>)
    /\ Invocations("git_commit") = {}

----------------------------------------------------------------------------
(* Properties of the tool functions *)

\* the least position at which old occurs in s
FirstAt(s, old) ==
    CHOOSE i \in 1..Len(s) :
        OccursAt(s, old, i) /\ \A j \in 1..(i - 1) : ~OccursAt(s, old, j)

IsEditOfOccurring ==
    /\ probe.tool = "edit_file"
    /\ probe.params[2] # <<>>
    /\ probe.pre[resolve_abs_path(probe.params[1])].kind = "file"
    /\ \E i \in 1..Len(probe.pre[resolve_abs_path(probe.params[1])].content) :
           OccursAt(probe.pre[resolve_abs_path(probe.params[1])].content,
                    probe.params[2], i)

\* C10: edit_file with a non-empty old_str that occurs in the file leaves the file
\* with what it held before the first occurrence, then new_str, then what it held
\* after it, and changes nothing else in the file system
C10_FirstOccurrenceOnly ==
    IsEditOfOccurring =>
        LET full_path == resolve_abs_path(probe.params[1])
            original == probe.pre[full_path].content
            old_str == probe.params[2]
            new_str == probe.params[3]
            i == FirstAt(original, old_str)
        IN  /\ ~probe.out.raised
            /\ "error" \notin DOMAIN probe.out.value
            /\ fs[full_path] =
                   File(SubSeq(original, 1, i - 1) \o new_str
                            \o SubSeq(original, i + Len(old_str), Len(original)))
            /\ \A q \in AbsPaths \ {full_path} : fs[q] = probe.pre[q]

IsEditOfMissing ==
    /\ probe.tool = "edit_file"
    /\ probe.params[2] # <<>>
    /\ probe.pre[resolve_abs_path(probe.params[1])].kind = "file"
    /\ \A i \in 1..Len(probe.pre[resolve_abs_path(probe.params[1])].content) :
           ~OccursAt(probe.pre[resolve_abs_path(probe.params[1])].content,
                     probe.params[2], i)

\* C11: edit_file with a non-empty old_str that does not occur in the content of an
\* existing file returns the "old_str not found" result, which is no error and no
\* exception, and leaves the file system as it was
C11_MissLeavesFileUntouched ==
    IsEditOfMissing =>
        /\ ~probe.out.raised
        /\ "error" \notin DOMAIN probe.out.value
        /\ probe.out.value.action = "old_str not found"
        /\ fs = probe.pre

\* the step reads, with read_file, the path an edit_file with an empty old_str has
\* just written without failing
ReadsBackCreated ==
    /\ probe.tool = "edit_file"
    /\ probe.params[2] = <<>>
    /\ ~probe.out.raised
    /\ "error" \notin DOMAIN probe.out.value
    /\ probe'.tool = "read_file"
    /\ probe'.impl = probe.impl
    /\ probe'.params[1] = probe.params[1]

\* C12: read_file of a path that edit_file has just written with an empty old_str
\* and new_str X returns X as the content, whether the file existed or not
C12_CreateReadRoundTrip ==
    [][ReadsBackCreated =>
          /\ ~probe'.out.raised
          /\ "error" \notin DOMAIN probe'.out.value
          /\ probe'.out.value.content = Str(probe.params[3])]_vars

----------------------------------------------------------------------------
(* Further properties of the agent loop *)

\* the loop is about to run the iteration for the request at idx
AtRequest == pc = "dispatch" /\ idx <= Len(tool_calls)

\* the request at idx has arguments that decode, and they are
Decodes == ~json_loads(tool_calls[idx].function.arguments).raised
Args == json_loads(tool_calls[idx].function.arguments).value

\* C13: a request whose argument text cannot be decoded does not end the turn: an
\* error tool result is appended for its call id and the loop goes on
C13_MalformedArgumentsAnswered ==
    [][(AtRequest /\ ~Decodes)
       => /\ pc' \in {"dispatch", "llm"}
          /\ AppendsToolResult
          /\ Last(conversation').tool_call_id = tool_calls[idx].id
          /\ "error" \in DOMAIN Last(conversation').content.json]_vars

\* the value the claim gives a parameter the request leaves out
DefaultOf(key) == IF key \in {"filename", "path"} THEN "." ELSE <<>>

\* the arguments of the tool's parameters, in the order of its signature, with the
\* default for each one the request leaves out
WithDefaults(name, args) ==
    [i \in 1..Len(parameters(name)) |->
        IF parameters(name)[i] \in DOMAIN args
        THEN args[parameters(name)[i]]
        ELSE DefaultOf(parameters(name)[i])]

\* the request at idx names a registered tool and leaves out one of its parameters
OmitsParameter ==
    /\ AtRequest
    /\ Decodes
    /\ tool_calls[idx].function.name \in TOOL_REGISTRY
    /\ \E i \in 1..Len(parameters(tool_calls[idx].function.name)) :
           parameters(tool_calls[idx].function.name)[i] \notin DOMAIN Args

\* the tool is called with the defaults in the place of the parameters left out
CalledWithDefaults ==
    invoked' = Append(invoked,
                      [tool |-> tool_calls[idx].function.name,
                       params |-> WithDefaults(tool_calls[idx].function.name, Args)])

\* C17: a request that leaves out parameters of its tool is dispatched all the same:
\* the tool is called once with the default for each missing parameter, and a tool
\* result for the call id is appended, with no error and without ending the turn
C17_MissingParametersDefaulted ==
    [][OmitsParameter
       => /\ CalledWithDefaults
          /\ pc' \in {"dispatch", "llm"}
          /\ AppendsToolResult
          /\ Last(conversation').tool_call_id = tool_calls[idx].id
          /\ "error" \notin DOMAIN Last(conversation').content.json]_vars

\* the model's response is an answer, and the turn is over
FinalAnswer == LlmResponse /\ pc' = "input"

\* the model's response is a batch of requests, and a round of tools begins
ToolRound == LlmResponse /\ pc' = "dispatch"

\* the rounds of tools of the turn under way or just over
RoundsInTurn(conv) ==
    Cardinality({ p \in RequestPositions(conv) :
                     \A q \in (p + 1)..Len(conv) : conv[q].role # "user" })

\* C14: a turn is left for the user's next input only by a response without tool
\* calls, which always ends it; the loop itself sets no limit to the rounds: at every
\* model call of a turn, however many rounds it has run, a batch of requests is
\* taken up as long as the model has requests left to make
C14_EndsOnlyByFinalAnswer ==
    /\ [][(pc \in {"llm", "dispatch"} /\ pc' \notin {"llm", "dispatch", "crashed"})
          => /\ pc = "llm"
             /\ tool_calls' = <<>>
             /\ IsFinal(Last(conversation'))
             /\ pc' = "input"]_vars
    /\ [](pc = "llm" => ENABLED FinalAnswer)
    /\ [](pc = "llm" /\ Len(Requests(conversation)) < MaxToolCalls => ENABLED ToolRound)

\* a turn answered after three rounds of tools
C14_Witness ==
    /\ pc = "input"
    /\ IsFinal(Last(conversation))
    /\ RoundsInTurn(conversation) >= 3

\* the entries of conv from position i on are well formed: outside a turn a User
\* entry begins one; inside a turn a plain Assistant entry ends it, and a request
\* entry with k >= 1 calls is followed by exactly k tool results carrying its k ids.
\* The conversation ends inside a turn (open) or after a completed one
RECURSIVE WellFormedFrom(_, _, _, _)
WellFormedFrom(conv, i, inTurn, open) ==
    IF i > Len(conv) THEN inTurn = open
    ELSE IF ~inTurn
    THEN conv[i].role = "user" /\ WellFormedFrom(conv, i + 1, TRUE, open)
    ELSE IF IsFinal(conv[i])
    THEN WellFormedFrom(conv, i + 1, FALSE, open)
    ELSE /\ IsRequest(conv[i])
         /\ LET k == Len(conv[i].tool_calls)
            IN  /\ k >= 1
                /\ i + k <= Len(conv)
                /\ \A j \in 1..k : IsToolResult(conv[i + j])
                /\ { conv[i + j].tool_call_id : j \in 1..k }
                       = { conv[i].tool_calls[j].id : j \in 1..k }
                /\ Cardinality({ conv[i].tool_calls[j].id : j \in 1..k }) = k
                /\ WellFormedFrom(conv, i + k + 1, TRUE, open)

WellFormed(conv, open) ==
    /\ conv # <<>>
    /\ conv[1].role = "system"
    /\ WellFormedFrom(conv, 2, FALSE, open)

\* C18: whenever the model is called, the conversation is the System entry and then
\* turns: a User entry, rounds of a request entry followed by exactly its tool
\* results, and, for every turn but the one under way, a closing plain Assistant
\* entry; when a turn is over the last turn is closed as well
C18_WellFormedAtModelCall ==
    /\ pc = "llm" => WellFormed(conversation, TRUE)
    /\ (pc \in {"input", "exited"} /\ Len(conversation) > 1)
           => WellFormed(conversation, FALSE)

\* the model is called in the second turn after a batch of two has been answered,
\* the first turn having run a round of its own
C18_Witness ==
    /\ pc = "llm"
    /\ Turns(conversation) = 2
    /\ Len(conversation) = 9
    /\ IsRequest(conversation[3])
    /\ IsFinal(conversation[5])
    /\ IsRequest(conversation[7])
    /\ Len(conversation[7].tool_calls) = 2
    /\ IsToolResult(Last(conversation))

\* the request at idx is an edit_file request, with arguments that decode
AtEditRequest ==
    /\ AtRequest
    /\ Decodes
    /\ tool_calls[idx].function.name = "edit_file"

\* that request leaves old_str out or gives it as the empty string
NoOldStr == "old_str" \notin DOMAIN Args \/ Args["old_str"] = <<>>

\* the actions the substring-replace branch of edit_file reports
ReplaceActions ==
    {"old_str not found", "Edited: old_str replaced by new_str successfully"}

\* C19: an edit_file request without old_str, or with an empty one, on a path that
\* is no directory leaves the file holding new_str and nothing else (nothing at all
\* when new_str is left out too), changes no other path and is answered as a
\* creation; the results of the substring-replace branch answer only requests with
\* a non-empty old_str
C19_EmptyOldStrOverwrites ==
    [][AtEditRequest =>
          LET full_path == resolve_abs_path(get(Args, "path", "."))
              new_str == IF "new_str" \in DOMAIN Args THEN Args["new_str"] ELSE <<>>
          IN  /\ (NoOldStr /\ fs[full_path].kind # "dir") =>
                    /\ fs'[full_path] = File(new_str)
                    /\ \A q \in AbsPaths \ {full_path} : fs'[q] = fs[q]
                    /\ AppendsToolResult
                    /\ Last(conversation').content.json.action = "created_file"
              /\ (AppendsToolResult
                      /\ Last(conversation').content.json.action \in ReplaceActions)
                    => ~NoOldStr]_vars

\* a file holding "yx" after an edit has been overwritten by a request that leaves
\* old_str out, and holds "xx"
C19_Witness ==
    /\ Len(invoked) = 2
    /\ invoked[1].params = <<"a.txt", <<"x">>, <<"y">>>>
    /\ invoked[2].params = <<"a.txt", <<>>, <<"x", "x">>>>
    /\ fs[Join(Cwd, "a.txt")] = File(<<"x", "x">>)
    /\ IsToolResult(Last(conversation))
    /\ Last(conversation).content.json.action = "created_file"

\* the names of the tools the model is told about
Advertised == { t.name : t \in build_tools }

\* what the tool of a name returns for the positional arguments p
ResultOf(f, name, p) ==
    CASE name = "read_file"  -> read_file_tool(f, p[1])
      [] name = "list_files" -> list_files_tool(f, p[1])
      [] name = "edit_file"  -> edit_file_tool(f, p[1], p[2], p[3])

\* C20: the tools the model is told about are the registered ones, and a request
\* for any of them calls that tool, once, with the request's arguments; the payload
\* of the tool result appended for it is the text of what the tool returned, never
\* that of the "" the loop sets resp to before the if/elif chain
C20_AdvertisedToolsDispatch ==
    /\ [](Advertised = TOOL_REGISTRY)
    /\ [][(AtRequest /\ Decodes /\ tool_calls[idx].function.name \in Advertised)
          => LET name == tool_calls[idx].function.name
                 p == WithDefaults(name, Args)
             IN  /\ invoked' = Append(invoked, [tool |-> name, params |-> p])
                 /\ AppendsOne =>
                        /\ IsToolResult(Last(conversation'))
                        /\ Last(conversation').content # json_dumps(Str(<<>>))
                        /\ Last(conversation').content
                               = json_dumps(ResultOf(fs, name, p).value)]_vars

\* a batch naming each of the three registered tools, all three answered
C20_Witness ==
    \E p \in RequestPositions(conversation) :
        /\ Len(conversation[p].tool_calls) = 3
        /\ { conversation[p].tool_calls[j].function.name : j \in 1..3 } = TOOL_REGISTRY
        /\ p + 3 <= Len(conversation)
        /\ IsToolResult(conversation[p + 3])

\* C16: every model call, answered or failing, is given the whole conversation as
\* it stands at the call, from the System entry on, and the description of every
\* registered tool with all its parameters; nothing else changes what the model
\* is given
C16_FullConversationEveryCall ==
    /\ [][ModelCalled
          => /\ request'.messages = conversation
             /\ request'.messages[1] = system_message
             /\ { t.name : t \in request'.tools } = TOOL_REGISTRY
             /\ \A t \in request'.tools :
                    /\ t.properties = parameters(t.name)
                    /\ t.required = parameters(t.name)]_vars
    /\ [][request' # request => ModelCalled]_vars

\* the model is called in the second turn, after a round of tools in each turn,
\* and is given both turns
C16_Witness ==
    /\ Turns(request.messages) = 2
    /\ Len(request.messages) = 8
    /\ IsToolResult(request.messages[4])
    /\ IsFinal(request.messages[5])
    /\ IsToolResult(Last(request.messages))
    /\ Cardinality(request.tools) = 3

----------------------------------------------------------------------------
(* Properties of run_turn *)

\* the tool-result entries of a conversation
Results(conv) == { q \in 1..Len(conv) : IsToolResult(conv[q]) }

====
